---- MODULE Spec2Model ----
(***************************************************************************)
(* A model of the two command-line programs of fairflow-reward:            *)
(*   - the URL Rewriter (first main of main.go, lines 1-106), which scans  *)
(*     a cycle directory and shifts versioned URLs inside values.yaml;     *)
(*   - the Fetcher (second main of main.go, lines 108-537), which queries  *)
(*     rows, validates them and downloads one merkle file per row.         *)
(* Text is modelled as sequences of one-character strings so that          *)
(* formatting, parsing and substring replacement are computed, not assumed.*)
(***************************************************************************)
EXTENDS Integers, Sequences, FiniteSets, TLC

VARIABLES
    \* ---- URL Rewriter ----
    rpc,        \* position of the rewriter's main
    dir,        \* the cycle directory: a set of entries [name, isDir]
    rawPrefix,  \* --raw-prefix
    values,     \* the content of the --values file on disk
    initial,    \* the content of the --values file before the first run
    pairs,      \* pairs map[pair]struct{}
    cycleNum,   \* cycleNum
    orig,       \* orig
    updated,    \* updated
    changed,    \* changed
    todo,       \* pairs the range loop has not visited yet
    wrote,      \* whether os.WriteFile was called in this run
    rexit,      \* exit code of the run (-1 while running)
    rerr,       \* which die() ended the run ("" if none)
    runs,       \* number of runs started so far
    \* ---- Fetcher ----
    fpc,            \* position of the fetcher's main
    ferr,           \* which fatal() ended the run ("" if none)
    cycle,          \* --cycle
    allowExisting,  \* --allow-existing
    tkind,          \* what is at targetDir: "absent", "dir" or "file"
    preKind,        \* what was at targetDir when the run started
    fs,             \* the files in targetDir: name -> [size, body, run]
    preFs,          \* the files in targetDir when the run started
    seen,           \* seen map[string]struct{}
    seenChains,     \* seenChains map[string]struct{}
    items,          \* items []downloadItem
    pagesFetched,   \* number of QueryDataSource calls answered
    pageLeft,       \* rows of qr.Results the loop has not reached yet
    hasMore,        \* qr.HasMore
    nextCursor,     \* qr.NextCursor
    cur,            \* the row (page) the loop is at
    idx,            \* index into items of the download loop
    body,           \* length of the response body being downloaded
    written,        \* bytes io.Copy has written to the temporary file
    attempts,       \* number of downloadToFile calls
    printed         \* the count printed at the end (-1 if nothing printed)

rvars == <<rpc, dir, rawPrefix, values, initial, pairs, cycleNum, orig, updated,
           changed, todo, wrote, rexit, rerr, runs>>

fvars == <<fpc, ferr, cycle, allowExisting, tkind, preKind, fs, preFs, seen,
           seenChains, items, pagesFetched, pageLeft, hasMore, nextCursor, cur, idx,
           body, written, attempts, printed>>

vars == <<rvars, fvars>>

(***************************************************************************)
(* Bounds of the model.                                                    *)
(***************************************************************************)
MaxDirEntries == 2
MaxSegments == 2
MaxRuns == 2
MaxPages == 2
MaxPageRows == 2
MaxBody == 2

(***************************************************************************)
(* Characters and strings.                                                 *)
(***************************************************************************)
Digit == <<"0", "1", "2", "3", "4", "5", "6", "7", "8", "9">>
Upper == <<"A", "B", "C", "D", "E", "F", "G", "H", "I", "J", "K", "L", "M",
           "N", "O", "P", "Q", "R", "S", "T", "U", "V", "W", "X", "Y", "Z">>
Lower == <<"a", "b", "c", "d", "e", "f", "g", "h", "i", "j", "k", "l", "m",
           "n", "o", "p", "q", "r", "s", "t", "u", "v", "w", "x", "y", "z">>

\* The characters the model uses, in byte order.
ByteOrder == <<"#", "-", ".", "/">> \o Digit \o <<":">> \o Upper \o <<"_">> \o Lower

InSeq(c, s) == \E i \in 1..Len(s) : s[i] = c
IndexOf(c, s) == CHOOSE i \in 1..Len(s) : s[i] = c

\* Byte-wise string comparison a < b.
RECURSIVE StrLess(_, _)
StrLess(a, b) ==
    IF b = <<>> THEN FALSE
    ELSE IF a = <<>> THEN TRUE
    ELSE IF a[1] = b[1] THEN StrLess(Tail(a), Tail(b))
    ELSE IndexOf(a[1], ByteOrder) < IndexOf(b[1], ByteOrder)

\* strings.ToUpper on ASCII text.
ToUpper(s) ==
    [i \in 1..Len(s) |-> IF InSeq(s[i], Lower) THEN Upper[IndexOf(s[i], Lower)] ELSE s[i]]

\* The %d verb of fmt.Sprintf for n >= 0.
RECURSIVE Itoa(_)
Itoa(n) ==
    IF n < 10 THEN <<Digit[n + 1]>>
    ELSE Itoa(n \div 10) \o <<Digit[(n % 10) + 1]>>

\* strconv.Atoi on a non-empty string of decimal digits.
RECURSIVE Atoi(_)
Atoi(s) ==
    IF s = <<>> THEN 0
    ELSE 10 * Atoi(SubSeq(s, 1, Len(s) - 1)) + (IndexOf(s[Len(s)], Digit) - 1)

\* Whether pat occurs in s at index i.
HasPrefixAt(s, i, pat) ==
    /\ i + Len(pat) - 1 <= Len(s)
    /\ \A k \in 1..Len(pat) : s[i + k - 1] = pat[k]

\* strings.Contains
Contains(s, pat) == \E i \in 1..(Len(s) - Len(pat) + 1) : HasPrefixAt(s, i, pat)

\* strings.Index from index i on: the first index >= i at which pat occurs in
\* s, 0 if there is none.
IndexFrom(s, i, pat) ==
    LET at == { j \in i..Len(s) : HasPrefixAt(s, j, pat) }
    IN IF at = {} THEN 0 ELSE CHOOSE j \in at : \A k \in at : j <= k

\* strings.ReplaceAll for a non-empty old: leftmost, non-overlapping occurrences.
ReplaceAll(s, old, new) ==
    LET RECURSIVE From(_)
        From(i) ==
            LET j == IndexFrom(s, i, old)
            IN IF j = 0 THEN SubSeq(s, i, Len(s))
               ELSE SubSeq(s, i, j - 1) \o new \o From(j + Len(old))
    IN From(1)

(***************************************************************************)
(* URL Rewriter: the directory scan.                                       *)
(***************************************************************************)
DotJson == <<".", "j", "s", "o", "n">>
CycleSeg == <<"/", "c", "y", "c", "l", "e", "-">>

\* Length of the longest run of characters of the class cls starting at s[i].
RECURSIVE Span(_, _, _)
Span(s, i, cls) ==
    IF i <= Len(s) /\ InSeq(s[i], cls) THEN 1 + Span(s, i + 1, cls) ELSE 0

\* re.FindStringSubmatch(name) for ^([0-9]+)_([A-Za-z]+)_([0-9]+)\.json$ :
\* <<>> if there is no match, else <<name, m1, m2, m3>>.
FindStringSubmatch(name) ==
    LET n1 == Span(name, 1, Digit)
        s2 == n1 + 2
        n2 == Span(name, s2, Upper \o Lower)
        s3 == s2 + n2 + 1
        n3 == Span(name, s3, Digit)
        s4 == s3 + n3
    IN IF /\ n1 >= 1
          /\ n1 + 1 <= Len(name) /\ name[n1 + 1] = "_"
          /\ n2 >= 1
          /\ s2 + n2 <= Len(name) /\ name[s2 + n2] = "_"
          /\ n3 >= 1
          /\ SubSeq(name, s4, Len(name)) = DotJson
       THEN <<name, SubSeq(name, 1, n1), SubSeq(name, s2, s2 + n2 - 1),
              SubSeq(name, s3, s3 + n3 - 1)>>
       ELSE <<>>

\* os.ReadDir: the entries of the directory sorted by filename.
RECURSIVE ReadDir(_)
ReadDir(d) ==
    IF d = {} THEN <<>>
    ELSE LET first == CHOOSE e \in d : \A o \in d \ {e} : StrLess(e.name, o.name)
         IN <<first>> \o ReadDir(d \ {first})

\* The comparison of a filename's cycle with cycleNum, 0 meaning "not set yet".
CycleMismatch(have, cn) == have # 0 /\ have # cn

\* The loop over the entries (lines 35-56): the state after the entries from
\* index i on, starting from state st = [cycleNum, pairs, err].
RECURSIVE ScanFrom(_, _, _)
ScanFrom(entries, i, st) ==
    IF i > Len(entries) \/ st.err # "" THEN st
    ELSE LET entry == entries[i]
             m == FindStringSubmatch(entry.name)
         IN IF entry.isDir \/ m = <<>> THEN ScanFrom(entries, i + 1, st)
            ELSE LET chainID == m[2]
                     rewardType == ToUpper(m[3])
                     cn == Atoi(m[4])
                 IN IF CycleMismatch(st.cycleNum, cn)
                    THEN [st EXCEPT !.err = "multiple cycle numbers"]
                    ELSE ScanFrom(entries, i + 1,
                            [cycleNum |-> cn,
                             pairs |-> st.pairs \cup
                                 {[ChainID |-> chainID, RewardType |-> rewardType]},
                             err |-> ""])

ScanDir(d) == ScanFrom(ReadDir(d), 1, [cycleNum |-> 0, pairs |-> {}, err |-> ""])

(***************************************************************************)
(* URL Rewriter: the replacement.                                          *)
(***************************************************************************)
\* fmt.Sprintf("%s/cycle-%d/%s_%s_%d.json", rawPrefix, c, p.ChainID, p.RewardType, c)
URL(prefix, c, p) ==
    prefix \o CycleSeg \o Itoa(c) \o <<"/">> \o p.ChainID \o <<"_">> \o p.RewardType
        \o <<"_">> \o Itoa(c) \o DotJson

NewURL(p) == URL(rawPrefix, cycleNum, p)
PrevURL(p) == URL(rawPrefix, cycleNum - 1, p)
OldURL(p) == URL(rawPrefix, cycleNum - 2, p)

\* The body of the loop over pairs (lines 78-89): the new value of updated.
PairUpdatedOldFirst(text, p) ==
    LET t1 == IF Contains(text, OldURL(p)) THEN ReplaceAll(text, OldURL(p), PrevURL(p))
              ELSE text
    IN IF Contains(t1, PrevURL(p)) THEN ReplaceAll(t1, PrevURL(p), NewURL(p)) ELSE t1

PairUpdated(text, p) ==
    LET t1 == IF Contains(text, PrevURL(p)) THEN ReplaceAll(text, PrevURL(p), NewURL(p))
              ELSE text
    IN IF Contains(t1, OldURL(p)) THEN ReplaceAll(t1, OldURL(p), PrevURL(p)) ELSE t1

\* The body of the loop over pairs: whether it sets changed.
PairChangedPrevOnly(text, p) == Contains(text, PrevURL(p))

PairChangedAlways(text, p) == TRUE

PairChanged(text, p) ==
    LET t1 == IF Contains(text, PrevURL(p)) THEN ReplaceAll(text, PrevURL(p), NewURL(p))
              ELSE text
    IN Contains(text, PrevURL(p)) \/ Contains(t1, OldURL(p))

(***************************************************************************)
(* URL Rewriter: inputs.                                                   *)
(***************************************************************************)
Name(chain, type, cyc) == chain \o <<"_">> \o type \o <<"_">> \o cyc \o DotJson

\* The entries a cycle directory is populated from.
EntryPool ==
    { [name |-> Name(<<"1">>, <<"A">>, <<"1", "0">>), isDir |-> FALSE],
      [name |-> Name(<<"1">>, <<"a">>, <<"1", "0">>), isDir |-> FALSE],
      [name |-> Name(<<"2">>, <<"B">>, <<"0", "1", "0">>), isDir |-> FALSE],
      [name |-> Name(<<"2">>, <<"B">>, <<"9">>), isDir |-> TRUE],
      [name |-> Name(<<"1">>, <<"A">>, <<"0">>), isDir |-> FALSE],
      [name |-> Name(<<"2">>, <<"B">>, <<"1">>), isDir |-> FALSE],
      [name |-> Name(<<"2">>, <<"B">>, <<"9">>) \o <<".", "t", "m", "p">>, isDir |-> FALSE] }

Directories == { d \in SUBSET EntryPool : Cardinality(d) <= MaxDirEntries }

RawPrefixes == { <<"h", ":", "/", "/", "r", "/", "m">> }

PairA == [ChainID |-> <<"1">>, RewardType |-> <<"A">>]
PairB == [ChainID |-> <<"2">>, RewardType |-> <<"B">>]

\* The pieces a values file is made of: URLs of several cycles, a URL whose
\* reward type is in lower case, and unrelated text.
Segments(prefix) ==
    { URL(prefix, c, PairA) : c \in {8, 9, 10} }
        \cup { URL(prefix, 9, PairB) }
        \cup { URL(prefix, 9, [ChainID |-> <<"1">>, RewardType |-> <<"a">>]) }
        \cup { <<"#">> }

RECURSIVE Flatten(_)
Flatten(ss) == IF ss = <<>> THEN <<>> ELSE Head(ss) \o Flatten(Tail(ss))

Contents(prefix) ==
    { Flatten(ss) : ss \in UNION { [1..n -> Segments(prefix)] : n \in 0..MaxSegments } }

(***************************************************************************)
(* Fetcher: inputs.                                                        *)
(***************************************************************************)
Cycles == {2}

\* The mapping file: display name -> chain identifier, display name -> type code.
Mapping ==
    [Chains |-> [Ethereum |-> "1", Mainnet |-> "1", Base |-> "2"],
     Types |-> [Liquidity |-> "LM", Trading |-> "TR"]]

CycleWord == <<"C", "y", "c", "l", "e", " ">>

\* fmt.Sprintf("Cycle %d", cycle)
CycleStr(c) == CycleWord \o Itoa(c)

\* A row with every property well-formed.
Row(id, titleParts, chainName, typeNames, files) ==
    [ID |-> id,
     Title |-> [ok |-> TRUE, Type |-> "title", parts |-> titleParts],
     Chain |-> [ok |-> TRUE, Select |-> TRUE, Name |-> chainName],
     Type |-> [ok |-> TRUE, Type |-> "multi_select", MultiSelect |-> typeNames],
     File |-> [ok |-> TRUE, Type |-> "files", Files |-> files]]

NotionFile(type, hosted, external) ==
    [Type |-> type, FileURL |-> hosted, ExternalURL |-> external]

NoRow == Row("", <<>>, "", <<>>, <<>>)

\* The rows a query answer is made of: rows that resolve to an item (two of
\* them to the same pair), a row the title re-check skips, and rows that fail
\* one validation each.
RowPool(c) ==
    LET label == <<CycleStr(c)>>
        hosted == <<NotionFile("file", "u", "")>>
        good == Row("p1", label, "Ethereum", <<"Liquidity">>, hosted)
    IN { good,
         Row("p2", <<CycleWord, Itoa(c)>>, "Base", <<"Liquidity">>,
             <<NotionFile("external", "", "u")>>),
         Row("p3", <<CycleStr(c) \o <<"0">>>>, "Mainnet", <<"Liquidity">>, hosted),
         Row("p4", label, "Ethereum", <<"Trading">>, <<NotionFile("", "", "u")>>),
         Row("s1", <<<<"c", "y", "c", "l", "e", " ">> \o Itoa(c)>>, "Base",
             <<"Liquidity", "Trading">>, hosted),
         Row("b1", label, "Base", <<"Liquidity", "Trading">>, hosted),
         Row("b2", label, "Solana", <<"Trading", "Liquidity">>, hosted),
         Row("b3", label, "Base", <<>>, hosted),
         Row("b4", label, "Solana", <<"Liquidity">>, hosted),
         [good EXCEPT !.ID = "b5", !.Chain.Select = FALSE],
         [good EXCEPT !.ID = "b6", !.Title.ok = FALSE],
         [good EXCEPT !.ID = "b7", !.Title.Type = "rich_text",
                      !.Type.MultiSelect = <<"Liquidity", "Trading">>],
         Row("b8", label, "Base", <<"Farming">>, hosted),
         [good EXCEPT !.ID = "b9", !.Type.Type = "select"],
         [good EXCEPT !.ID = "b10", !.File.Type = "rich_text"],
         Row("b11", label, "Base", <<"Liquidity">>, hosted \o hosted),
         Row("b12", label, "Base", <<"Liquidity">>, <<NotionFile("file", "", "")>>) }

\* The name a download item is written under.
OutNameOf(chainID, rewardType, c) ==
    chainID \o "_" \o rewardType \o "_" \o ToString(c) \o ".json"

\* What targetDir holds before the run: nothing, a file of another pair, or
\* the file of a pair the run will write.
PreFiles(c) ==
    { {},
      { [name |-> OutNameOf("9", "XX", c), size |-> 1, body |-> 1, run |-> FALSE] },
      { [name |-> OutNameOf("1", "LM", c), size |-> 1, body |-> 1, run |-> FALSE] } }

(***************************************************************************)
(* Fetcher: row validation.                                                *)
(***************************************************************************)
\* joinPlainText over the rich-text items of the title.
TitleText(p) == Flatten(p.parts)

\* fileURL: the URL of a file entry, "" for the error.
FileURL(f) ==
    IF f.Type = "file" /\ f.FileURL # "" THEN f.FileURL
    ELSE IF f.Type = "external" /\ f.ExternalURL # "" THEN f.ExternalURL
    ELSE IF f.FileURL # "" THEN f.FileURL
    ELSE IF f.ExternalURL # "" THEN f.ExternalURL
    ELSE ""

\* len(typeProp.MultiSelect) != 1 is fatal.
TypeCountAtLeastOne(n) == n >= 1

TypeCountOK(n) == n = 1

Rejected(msg) == [kind |-> "fatal", err |-> msg, ChainID |-> "", RewardType |-> "", URL |-> ""]

\* Lines 399-440: the checks on one row, in order.
ValidateRow(row, c) ==
    IF ~row.Title.ok \/ row.Title.Type # "title" THEN Rejected("title property")
    ELSE IF ~Contains(TitleText(row.Title), CycleStr(c))
    THEN [Rejected("") EXCEPT !.kind = "skip"]
    ELSE IF ~row.Chain.ok \/ ~row.Chain.Select \/ row.Chain.Name = ""
    THEN Rejected("chain select")
    ELSE IF row.Chain.Name \notin DOMAIN Mapping.Chains THEN Rejected("chain mapping")
    ELSE IF ~row.Type.ok \/ row.Type.Type # "multi_select" THEN Rejected("type property")
    ELSE IF ~TypeCountOK(Len(row.Type.MultiSelect)) THEN Rejected("type count")
    ELSE IF row.Type.MultiSelect[1] \notin DOMAIN Mapping.Types THEN Rejected("type mapping")
    ELSE IF ~row.File.ok \/ row.File.Type # "files" THEN Rejected("files property")
    ELSE IF Len(row.File.Files) # 1 THEN Rejected("file count")
    ELSE IF FileURL(row.File.Files[1]) = "" THEN Rejected("file url")
    ELSE [kind |-> "ok", err |-> "",
          ChainID |-> Mapping.Chains[row.Chain.Name],
          RewardType |-> Mapping.Types[row.Type.MultiSelect[1]],
          URL |-> FileURL(row.File.Files[1])]

\* key := chainID + ":" + rewardType
SeenKey(chainID, rewardType) == chainID \o ":" \o rewardType

\* _, exists := seen[key]
IsDuplicateNever(key) == FALSE

IsDuplicate(key) == key \in seen

\* Lines 466-470: the chain identifiers of the mapping without an accepted row.
MissingChainsUnchecked == {}

MissingChains ==
    { Mapping.Chains[n] : n \in DOMAIN Mapping.Chains } \ seenChains

\* Line 356: len(entries) > 0 && !*allowExisting
ExistingBlockedNever(n) == FALSE

ExistingBlocked(n) == n > 0 /\ ~allowExisting

\* Line 477: outName
OutNameWithoutType(item) == item.ChainID \o "_" \o ToString(cycle) \o ".json"

OutName(item) == OutNameOf(item.ChainID, item.RewardType, cycle)

\* Line 522: tmp := outPath + ".tmp"
TmpName(item) == OutName(item) \o ".tmp"

(***************************************************************************)
(* Fetcher: the files of targetDir.                                        *)
(***************************************************************************)
Exists(files, name) == \E f \in files : f.name = name
FileAt(files, name) == CHOOSE f \in files : f.name = name
Without(files, name) == { f \in files : f.name # name }

\* os.Create: the file exists and is empty.
Create(files, name, len) ==
    Without(files, name) \cup {[name |-> name, size |-> 0, body |-> len, run |-> TRUE]}

\* One more byte of the body is written.
WriteByte(files, name) ==
    LET f == FileAt(files, name)
    IN Without(files, name) \cup {[f EXCEPT !.size = f.size + 1]}

\* os.Rename: the file from replaces whatever is at to.
Rename(files, from, to) ==
    LET f == FileAt(files, from)
    IN Without(Without(files, from), to) \cup {[f EXCEPT !.name = to]}

(***************************************************************************)
(* Idle states: each program runs on its own.                              *)
(***************************************************************************)
FIdle ==
    /\ fpc = "idle"
    /\ ferr = ""
    /\ cycle = 0
    /\ allowExisting = FALSE
    /\ tkind = "absent"
    /\ preKind = "absent"
    /\ fs = {}
    /\ preFs = {}
    /\ seen = {}
    /\ seenChains = {}
    /\ items = <<>>
    /\ pagesFetched = 0
    /\ pageLeft = 0
    /\ hasMore = FALSE
    /\ nextCursor = ""
    /\ cur = NoRow
    /\ idx = 0
    /\ body = 0
    /\ written = 0
    /\ attempts = 0
    /\ printed = -1

RIdle ==
    /\ rpc = "idle"
    /\ dir = {}
    /\ rawPrefix = <<>>
    /\ values = <<>>
    /\ initial = <<>>
    /\ pairs = {}
    /\ cycleNum = 0
    /\ orig = <<>>
    /\ updated = <<>>
    /\ changed = FALSE
    /\ todo = {}
    /\ wrote = FALSE
    /\ rexit = -1
    /\ rerr = ""
    /\ runs = 0

(***************************************************************************)
(* URL Rewriter: the run.                                                  *)
(***************************************************************************)
RInit ==
    /\ FIdle
    /\ rpc = "scan"
    /\ dir \in Directories
    /\ rawPrefix \in RawPrefixes
    /\ values \in Contents(rawPrefix)
    /\ initial = values
    /\ pairs = {}
    /\ cycleNum = 0
    /\ orig = <<>>
    /\ updated = <<>>
    /\ changed = FALSE
    /\ todo = {}
    /\ wrote = FALSE
    /\ rexit = -1
    /\ rerr = ""
    /\ runs = 1

RDie(msg) ==
    /\ rpc' = "fatal"
    /\ rerr' = msg
    /\ rexit' = 1

\* Lines 28-62: scan the directory and check the cycle number.
RScan ==
    /\ rpc = "scan"
    /\ LET st == ScanDir(dir)
       IN /\ cycleNum' = st.cycleNum
          /\ pairs' = st.pairs
          /\ IF st.err # "" THEN RDie(st.err)
             ELSE IF st.cycleNum = 0 \/ st.pairs = {} THEN RDie("no matching merkle files")
             ELSE IF st.cycleNum < 2 THEN RDie("cycle too small")
             ELSE rpc' = "read" /\ UNCHANGED <<rerr, rexit>>
    /\ UNCHANGED <<dir, rawPrefix, values, initial, orig, updated, changed, todo, wrote, runs>>
    /\ UNCHANGED fvars

\* Lines 64-74: read the values file.
RReadFile ==
    /\ rpc = "read"
    /\ orig' = values
    /\ updated' = values
    /\ changed' = FALSE
    /\ todo' = pairs
    /\ rpc' = "replace"
    /\ UNCHANGED <<dir, rawPrefix, values, initial, pairs, cycleNum, wrote, rexit, rerr, runs>>
    /\ UNCHANGED fvars

\* Lines 77-90: one iteration of the range over the pairs map, whose order
\* is not specified.
RReplacePair ==
    /\ rpc = "replace"
    /\ \E p \in todo :
        /\ updated' = PairUpdated(updated, p)
        /\ changed' = (changed \/ PairChanged(updated, p))
        /\ todo' = todo \ {p}
    /\ UNCHANGED <<rpc, dir, rawPrefix, values, initial, pairs, cycleNum, orig, wrote,
                   rexit, rerr, runs>>
    /\ UNCHANGED fvars

\* Lines 92-95: nothing matched.
RNoChange ==
    /\ rpc = "replace"
    /\ todo = {}
    /\ ~changed
    /\ rpc' = "done"
    /\ rexit' = 0
    /\ UNCHANGED <<dir, rawPrefix, values, initial, pairs, cycleNum, orig, updated,
                   changed, todo, wrote, rerr, runs>>
    /\ UNCHANGED fvars

\* Lines 97-100: write the modified text back.
RWriteFile ==
    /\ rpc = "replace"
    /\ todo = {}
    /\ changed
    /\ wrote' = TRUE
    /\ values' = updated
    /\ rpc' = "done"
    /\ rexit' = 0
    /\ UNCHANGED <<dir, rawPrefix, initial, pairs, cycleNum, orig, updated, changed, todo,
                   rerr, runs>>
    /\ UNCHANGED fvars

\* Lines 97-99: os.WriteFile fails, before or after truncating the file.
RWriteFileFails ==
    /\ rpc = "replace"
    /\ todo = {}
    /\ changed
    /\ wrote' = TRUE
    /\ values' \in {values, <<>>}
    /\ RDie("write")
    /\ UNCHANGED <<dir, rawPrefix, initial, pairs, cycleNum, orig, updated, changed, todo,
                   runs>>
    /\ UNCHANGED fvars

\* The rewriter is run again on its own output, same directory and prefix.
RRerun ==
    /\ rpc = "done"
    /\ runs < MaxRuns
    /\ runs' = runs + 1
    /\ rpc' = "scan"
    /\ pairs' = {}
    /\ cycleNum' = 0
    /\ orig' = <<>>
    /\ updated' = <<>>
    /\ changed' = FALSE
    /\ todo' = {}
    /\ wrote' = FALSE
    /\ rexit' = -1
    /\ rerr' = ""
    /\ UNCHANGED <<dir, rawPrefix, values, initial>>
    /\ UNCHANGED fvars

RNext ==
    \/ RScan
    \/ RReadFile
    \/ RReplacePair
    \/ RNoChange
    \/ RWriteFile
    \/ RWriteFileFails
    \/ RRerun

SpecRewriter == RInit /\ [][RNext]_vars

(***************************************************************************)
(* Fetcher: the run.                                                       *)
(***************************************************************************)
FInit ==
    /\ RIdle
    /\ fpc = "start"
    /\ ferr = ""
    /\ cycle \in Cycles
    /\ allowExisting \in BOOLEAN
    /\ \/ tkind \in {"absent", "file"} /\ fs = {}
       \/ tkind = "dir" /\ fs \in PreFiles(cycle)
    /\ preKind = tkind
    /\ preFs = fs
    /\ seen = {}
    /\ seenChains = {}
    /\ items = <<>>
    /\ pagesFetched = 0
    /\ pageLeft = 0
    /\ hasMore = FALSE
    /\ nextCursor = ""
    /\ cur = NoRow
    /\ idx = 0
    /\ body = 0
    /\ written = 0
    /\ attempts = 0
    /\ printed = -1

Fatal(msg) ==
    /\ fpc' = "fatal"
    /\ ferr' = msg

\* Lines 317-349: flags, mapping file and RetrieveDatabase all succeed.
FStart ==
    /\ fpc = "start"
    /\ fpc' = "stat"
    /\ UNCHANGED <<ferr, cycle, allowExisting, tkind, preKind, fs, preFs, seen,
                   seenChains, items, pagesFetched, pageLeft, hasMore, nextCursor, cur,
                   idx, body, written, attempts, printed>>
    /\ UNCHANGED rvars

\* Lines 319-348: a missing flag, an unreadable mapping or a failed
\* RetrieveDatabase ends the run.
FStartFails ==
    /\ fpc = "start"
    /\ Fatal("startup")
    /\ UNCHANGED <<cycle, allowExisting, tkind, preKind, fs, preFs, seen,
                   seenChains, items, pagesFetched, pageLeft, hasMore, nextCursor, cur,
                   idx, body, written, attempts, printed>>
    /\ UNCHANGED rvars

\* Lines 354-359: the existing-directory check; os.ReadDir lists the files of
\* the directory os.Stat has just found.
FCheckTarget ==
    /\ fpc = "stat"
    /\ IF tkind = "dir" /\ ExistingBlocked(Cardinality(fs))
       THEN Fatal("target folder exists")
       ELSE fpc' = "query" /\ UNCHANGED ferr
    /\ UNCHANGED <<cycle, allowExisting, tkind, preKind, fs, preFs, seen, seenChains,
                   items, pagesFetched, pageLeft, hasMore, nextCursor, cur, idx, body,
                   written, attempts, printed>>
    /\ UNCHANGED rvars

\* Line 393: QueryDataSource answers with a page of rows; the rows themselves
\* are drawn as the loop reaches them. The data ends within MaxPages pages.
FQuery ==
    /\ fpc = "query"
    /\ pagesFetched' = pagesFetched + 1
    /\ pageLeft' \in 0..MaxPageRows
    /\ hasMore' \in BOOLEAN
    /\ nextCursor' \in {"", "cursor"}
    /\ pagesFetched' = MaxPages => ~(hasMore' /\ nextCursor' # "")
    /\ fpc' = "page"
    /\ UNCHANGED <<ferr, cycle, allowExisting, tkind, preKind, fs, preFs, seen,
                   seenChains, items, cur, idx, body, written, attempts, printed>>
    /\ UNCHANGED rvars

\* Lines 394-396: QueryDataSource fails.
FQueryFails ==
    /\ fpc = "query"
    /\ Fatal("query")
    /\ UNCHANGED <<cycle, allowExisting, tkind, preKind, fs, preFs, seen,
                   seenChains, items, pagesFetched, pageLeft, hasMore, nextCursor, cur,
                   idx, body, written, attempts, printed>>
    /\ UNCHANGED rvars

\* Line 398: the loop reaches the next row of the page.
FNextRow ==
    /\ fpc = "page"
    /\ pageLeft > 0
    /\ cur' \in RowPool(cycle)
    /\ pageLeft' = pageLeft - 1
    /\ fpc' = "row"
    /\ UNCHANGED <<ferr, cycle, allowExisting, tkind, preKind, fs, preFs, seen,
                   seenChains, items, pagesFetched, hasMore, nextCursor, idx, body,
                   written, attempts, printed>>
    /\ UNCHANGED rvars

\* Lines 399-455: validate the row, then skip it, reject it or add its item.
FProcessRow ==
    /\ fpc = "row"
    /\ LET v == ValidateRow(cur, cycle)
           key == SeenKey(v.ChainID, v.RewardType)
       IN IF v.kind = "fatal"
          THEN Fatal(v.err) /\ UNCHANGED <<seen, seenChains, items>>
          ELSE IF v.kind = "skip"
          THEN fpc' = "page" /\ UNCHANGED <<ferr, seen, seenChains, items>>
          ELSE IF IsDuplicate(key)
          THEN Fatal("duplicate chain/type") /\ UNCHANGED <<seen, seenChains, items>>
          ELSE /\ seen' = seen \cup {key}
               /\ seenChains' = seenChains \cup {v.ChainID}
               /\ items' = Append(items, [ChainID |-> v.ChainID,
                                          RewardType |-> v.RewardType,
                                          PageID |-> cur.ID,
                                          SourceURL |-> v.URL])
               /\ fpc' = "page"
               /\ UNCHANGED ferr
    /\ cur' = IF fpc' = "fatal" THEN cur ELSE NoRow
    /\ UNCHANGED <<cycle, allowExisting, tkind, preKind, fs, preFs, pagesFetched,
                   pageLeft, hasMore, nextCursor, idx, body, written, attempts, printed>>
    /\ UNCHANGED rvars

\* Lines 457-460: after the last row of a page, stop or ask for the next page.
FPageEnd ==
    /\ fpc = "page"
    /\ pageLeft = 0
    /\ fpc' = IF ~hasMore \/ nextCursor = "" THEN "check" ELSE "query"
    /\ UNCHANGED <<ferr, cycle, allowExisting, tkind, preKind, fs, preFs, seen,
                   seenChains, items, pagesFetched, pageLeft, hasMore, nextCursor, cur,
                   idx, body, written, attempts, printed>>
    /\ UNCHANGED rvars

\* Lines 463-470: at least one item, and every chain of the mapping covered.
FCheck ==
    /\ fpc = "check"
    /\ IF items = <<>> THEN Fatal("no matching rows")
       ELSE IF MissingChains # {} THEN Fatal("missing chain")
       ELSE fpc' = "mkdir" /\ UNCHANGED ferr
    /\ UNCHANGED <<cycle, allowExisting, tkind, preKind, fs, preFs, seen,
                   seenChains, items, pagesFetched, pageLeft, hasMore, nextCursor, cur,
                   idx, body, written, attempts, printed>>
    /\ UNCHANGED rvars

\* Lines 472-474: os.MkdirAll, which fails when targetDir is a plain file.
FMkdir ==
    /\ fpc = "mkdir"
    /\ IF tkind = "file"
       THEN Fatal("mkdir") /\ UNCHANGED <<tkind, idx>>
       ELSE tkind' = "dir" /\ idx' = 1 /\ fpc' = "dl_request" /\ UNCHANGED ferr
    /\ UNCHANGED <<cycle, allowExisting, preKind, fs, preFs, seen, seenChains,
                   items, pagesFetched, pageLeft, hasMore, nextCursor, cur, body,
                   written, attempts, printed>>
    /\ UNCHANGED rvars

\* Lines 509-521: the GET is answered 2xx with a body of some length.
FDlRequest ==
    /\ fpc = "dl_request"
    /\ attempts' = attempts + 1
    /\ body' \in 0..MaxBody
    /\ fpc' = "dl_create"
    /\ UNCHANGED <<ferr, cycle, allowExisting, tkind, preKind, fs, preFs, seen,
                   seenChains, items, pagesFetched, pageLeft, hasMore, nextCursor, cur,
                   idx, written, printed>>
    /\ UNCHANGED rvars

\* Lines 513-521: the GET fails or is answered with a non-2xx status.
FDlRequestFails ==
    /\ fpc = "dl_request"
    /\ attempts' = attempts + 1
    /\ Fatal("download")
    /\ UNCHANGED <<cycle, allowExisting, tkind, preKind, fs, preFs, seen,
                   seenChains, items, pagesFetched, pageLeft, hasMore, nextCursor, cur,
                   idx, body, written, printed>>
    /\ UNCHANGED rvars

\* Lines 522-527: os.Create(tmp).
FDlCreate ==
    /\ fpc = "dl_create"
    /\ fs' = Create(fs, TmpName(items[idx]), body)
    /\ written' = 0
    /\ fpc' = "dl_copy"
    /\ UNCHANGED <<ferr, cycle, allowExisting, tkind, preKind, preFs, seen,
                   seenChains, items, pagesFetched, pageLeft, hasMore, nextCursor, cur,
                   idx, body, attempts, printed>>
    /\ UNCHANGED rvars

\* Line 528: io.Copy writes the next byte of the body to the temporary file.
FDlCopy ==
    /\ fpc = "dl_copy"
    /\ written < body
    /\ written' = written + 1
    /\ fs' = WriteByte(fs, TmpName(items[idx]))
    /\ UNCHANGED <<fpc, ferr, cycle, allowExisting, tkind, preKind, preFs, seen,
                   seenChains, items, pagesFetched, pageLeft, hasMore, nextCursor, cur,
                   idx, body, attempts, printed>>
    /\ UNCHANGED rvars

\* Line 531: io.Copy has reached the end of the body; os.Rename(tmp, outPath).
FDlRename ==
    /\ fpc = "dl_copy"
    /\ written = body
    /\ fs' = Rename(fs, TmpName(items[idx]), OutName(items[idx]))
    /\ fpc' = "dl_stat"
    /\ UNCHANGED <<ferr, cycle, allowExisting, tkind, preKind, preFs, seen,
                   seenChains, items, pagesFetched, pageLeft, hasMore, nextCursor, cur,
                   idx, body, written, attempts, printed>>
    /\ UNCHANGED rvars

\* Lines 523-531: os.Create, io.Copy or os.Rename fails; downloadToFile
\* returns the error and leaves the temporary file as it is.
FDlIOError ==
    /\ fpc \in {"dl_create", "dl_copy"}
    /\ Fatal("download")
    /\ UNCHANGED <<cycle, allowExisting, tkind, preKind, fs, preFs, seen,
                   seenChains, items, pagesFetched, pageLeft, hasMore, nextCursor, cur,
                   idx, body, written, attempts, printed>>
    /\ UNCHANGED rvars

\* Lines 484-489: the size check on outPath, then the next item or the count.
FDlStat ==
    /\ fpc = "dl_stat"
    /\ IF FileAt(fs, OutName(items[idx])).size = 0
       THEN Fatal("downloaded file is empty") /\ UNCHANGED <<idx, printed>>
       ELSE IF idx < Len(items)
       THEN idx' = idx + 1 /\ fpc' = "dl_request" /\ UNCHANGED <<ferr, printed>>
       ELSE printed' = Len(items) /\ fpc' = "done" /\ UNCHANGED <<ferr, idx>>
    /\ UNCHANGED <<cycle, allowExisting, tkind, preKind, fs, preFs, seen,
                   seenChains, items, pagesFetched, pageLeft, hasMore, nextCursor, cur,
                   body, written, attempts>>
    /\ UNCHANGED rvars

FNext ==
    \/ FStart
    \/ FStartFails
    \/ FCheckTarget
    \/ FQuery
    \/ FQueryFails
    \/ FNextRow
    \/ FProcessRow
    \/ FPageEnd
    \/ FCheck
    \/ FMkdir
    \/ FDlRequest
    \/ FDlRequestFails
    \/ FDlCreate
    \/ FDlCopy
    \/ FDlRename
    \/ FDlIOError
    \/ FDlStat

SpecFetcher == FInit /\ [][FNext]_vars

(***************************************************************************)
(* URL Rewriter: properties.                                               *)
(***************************************************************************)
\* Some discovered pair's URL of cycle c starts at text[i].
URLAt(text, i, c) == \E p \in pairs : HasPrefixAt(text, i, URL(rawPrefix, c, p))
PairAt(text, i, c) == CHOOSE p \in pairs : HasPrefixAt(text, i, URL(rawPrefix, c, p))

\* The first index >= i at which a previous-cycle or old-cycle URL of a
\* discovered pair starts, 0 if there is none.
NextShiftable(text, i) ==
    LET at == { j \in i..Len(text) :
                  URLAt(text, j, cycleNum - 1) \/ URLAt(text, j, cycleNum - 2) }
    IN IF at = {} THEN 0 ELSE CHOOSE j \in at : \A k \in at : j <= k

\* The text with every previous-cycle URL of a discovered pair turned into the
\* new-cycle URL, every old-cycle URL turned into the previous-cycle URL, and
\* every other character kept, in one pass over the text.
ShiftedText(text) ==
    LET RECURSIVE From(_)
        From(i) ==
            LET j == NextShiftable(text, i)
            IN IF j = 0 THEN SubSeq(text, i, Len(text))
               ELSE IF URLAt(text, j, cycleNum - 1)
               THEN LET p == PairAt(text, j, cycleNum - 1)
                    IN SubSeq(text, i, j - 1) \o NewURL(p) \o From(j + Len(PrevURL(p)))
               ELSE LET p == PairAt(text, j, cycleNum - 2)
                    IN SubSeq(text, i, j - 1) \o PrevURL(p) \o From(j + Len(OldURL(p)))
    IN From(1)

OccursPrev(text) == \E p \in pairs : Contains(text, PrevURL(p))
OccursOld(text) == \E p \in pairs : Contains(text, OldURL(p))

\* C1: a finished run has turned every previous-cycle URL of the file it read
\* into the new-cycle URL and every old-cycle URL into the previous-cycle URL,
\* and has left every other part of the text unchanged.
C1_ShiftsEveryURL == rpc = "done" => values = ShiftedText(orig)

\* C1 witness: a finished run on a file holding both the previous-cycle and the
\* old-cycle URL of one pair.
C1_Witness ==
    /\ rpc = "done"
    /\ \E p \in pairs : Contains(orig, PrevURL(p)) /\ Contains(orig, OldURL(p))
    /\ values # orig

\* C2 as stated: the second of two runs in succession makes no substitution
\* and leaves the file as the first run wrote it.
C2_SecondRunChangesNothing ==
    (runs = 2 /\ rpc = "done") => (~changed /\ ~wrote /\ values = orig)

\* C2 amended: the second run makes no substitution and leaves the file as the
\* first run wrote it when the file before the first run held no old-cycle URL
\* of a discovered pair.
C2_SecondRunChangesNothingWithoutOld ==
    (runs = 2 /\ rpc = "done" /\ ~OccursOld(initial))
        => (~changed /\ ~wrote /\ values = orig)

\* C2 witness: a second run that changed nothing after a first run that
\* rewrote the file.
C2_Witness ==
    /\ runs = 2 /\ rpc = "done"
    /\ ~OccursOld(initial)
    /\ values # initial
    /\ ~changed

\* Two plain files matching the pattern encode different cycle numbers.
MixedCycles ==
    \E e1, e2 \in dir :
        /\ ~e1.isDir /\ ~e2.isDir
        /\ FindStringSubmatch(e1.name) # <<>>
        /\ FindStringSubmatch(e2.name) # <<>>
        /\ Atoi(FindStringSubmatch(e1.name)[4]) # Atoi(FindStringSubmatch(e2.name)[4])

\* C3: once the directory has been scanned, a directory whose matching files
\* encode two different cycle numbers has ended the run with a fatal error and
\* the values file is as it was.
C3_MixedCyclesAreFatal ==
    (MixedCycles /\ rpc # "scan") => (rpc = "fatal" /\ values = initial)

\* C4: a run writes the values file if and only if a previous-cycle or
\* old-cycle URL of a discovered pair occurs in it; without one the run ends
\* with exit code 0 and the file untouched, with one the modified text
\* replaces the original.
C4_WritesIffSubstituted ==
    /\ rpc = "done" =>
        /\ rexit = 0
        /\ wrote <=> (OccursPrev(orig) \/ OccursOld(orig))
        /\ wrote => (values = updated /\ values # orig)
        /\ ~wrote => values = orig
    /\ (rpc = "fatal" /\ rerr = "write") => (OccursPrev(orig) \/ OccursOld(orig))

\* C4 witness: a finished run that wrote a file in which only an old-cycle URL
\* occurred.
C4_Witness ==
    /\ rpc = "done" /\ wrote
    /\ OccursOld(orig) /\ ~OccursPrev(orig)

(***************************************************************************)
(* Fetcher: properties.                                                    *)
(***************************************************************************)
SamePair(a, b) == a.ChainID = b.ChainID /\ a.RewardType = b.RewardType

NoDuplicateItems ==
    \A i, j \in 1..Len(items) : i # j => ~SamePair(items[i], items[j])

\* The row the loop is at passes every check and resolves to the pair of an
\* item accumulated earlier.
RepeatsEarlierPair ==
    /\ fpc = "row"
    /\ ValidateRow(cur, cycle).kind = "ok"
    /\ \E i \in 1..Len(items) : SamePair(items[i], ValidateRow(cur, cycle))

\* C5: the accumulated items never hold two items with the same (chain
\* identifier, reward-type code) pair, and a row whose resolved pair repeats an
\* earlier row's pair ends the run with a fatal error, the items unchanged.
C5_ItemsUniquePerPair ==
    /\ []NoDuplicateItems
    /\ [][RepeatsEarlierPair => (fpc' = "fatal" /\ items' = items)]_vars

\* C5 witness: a row on the second page resolves, under another display name,
\* to the pair of an earlier row, and the run has ended fatally.
C5_Witness ==
    /\ fpc = "fatal" /\ ferr = "duplicate chain/type"
    /\ pagesFetched = 2
    /\ cur.Chain.Name = "Mainnet"
    /\ \E i \in 1..Len(items) : items[i].PageID = "p1"

\* Some chain of the mapping has no accepted row.
UncoveredChain ==
    \E n \in DOMAIN Mapping.Chains :
        \A i \in 1..Len(items) : items[i].ChainID # Mapping.Chains[n]

NothingWritten == fs = preFs /\ tkind = preKind /\ attempts = 0

\* C6 as stated: with a chain of the mapping uncovered after the last page,
\* the run ends with the missing-chain error before the directory is created
\* and before any download.
C6_MissingChainError ==
    [][(fpc = "check" /\ UncoveredChain)
        => (fpc' = "fatal" /\ ferr' = "missing chain" /\ NothingWritten')]_vars

\* C6 amended: with a chain of the mapping uncovered after the last page, the
\* run ends with a fatal error before the directory is created and before any
\* download: the no-matching-rows error when no row was accepted at all, the
\* missing-chain error otherwise.
C6_MissingChainIsFatal ==
    [][(fpc = "check" /\ UncoveredChain)
        => /\ fpc' = "fatal"
           /\ ferr' = (IF items = <<>> THEN "no matching rows" ELSE "missing chain")
           /\ NothingWritten']_vars

\* C6 witness: rows were accepted for one chain only, and the run has ended
\* with the missing-chain error with nothing written.
C6_Witness ==
    /\ fpc = "fatal" /\ ferr = "missing chain"
    /\ items # <<>>
    /\ UncoveredChain
    /\ NothingWritten

TwoTypes(row) == Len(row.Type.MultiSelect) = 2

\* The title re-check of line 403 skips the row.
TitleSkips(row) ==
    /\ row.Title.ok
    /\ row.Title.Type = "title"
    /\ ~Contains(TitleText(row.Title), CycleStr(cycle))

\* C7 as stated: a returned row whose type property has two entries ends the
\* run with a fatal error before any download, whatever its other fields.
C7_TwoTypesAlwaysFatal ==
    [][(fpc = "row" /\ TwoTypes(cur)) => (fpc' = "fatal" /\ NothingWritten')]_vars

\* C7 amended: a returned row whose type property has two entries ends the
\* run with a fatal error before any download, unless its title text does not
\* contain the cycle label, in which case the row is skipped.
C7_TwoTypesFatalUnlessSkipped ==
    [][(fpc = "row" /\ TwoTypes(cur))
        => IF TitleSkips(cur)
           THEN fpc' = "page" /\ items' = items
           ELSE fpc' = "fatal" /\ NothingWritten']_vars

\* C7 witness: after other rows were accepted, a row with the cycle label in
\* its title and two types has ended the run with the type-count error.
C7_Witness ==
    /\ fpc = "fatal" /\ ferr = "type count"
    /\ TwoTypes(cur)
    /\ items # <<>>
    /\ NothingWritten

ExpectedName(item) == OutNameOf(item.ChainID, item.RewardType, cycle)
ExpectedNames == { ExpectedName(items[i]) : i \in 1..Len(items) }

\* C8 as stated: a successful run with k accepted rows leaves exactly k files
\* in the directory, each non-empty and named after a distinct accepted row,
\* and prints k.
C8_ExactlyKFiles ==
    fpc = "done" =>
        /\ printed = Len(items)
        /\ Cardinality(fs) = Len(items)
        /\ \A f \in fs : f.size > 0 /\ f.name \in ExpectedNames
        /\ \A n \in ExpectedNames : Exists(fs, n)

\* C8 amended: a successful run with k accepted rows prints k and leaves k
\* non-empty files written by this run, one per accepted row under its name,
\* and besides them only the files the directory held before under other
\* names; exactly k files when the directory held none.
C8_KFilesBesidesExisting ==
    fpc = "done" =>
        /\ printed = Len(items)
        /\ Cardinality(ExpectedNames) = Len(items)
        /\ \A n \in ExpectedNames :
              /\ Exists(fs, n)
              /\ FileAt(fs, n).run
              /\ FileAt(fs, n).size > 0
        /\ fs = { f \in fs : f.name \in ExpectedNames }
                    \cup { f \in preFs : f.name \notin ExpectedNames }
        /\ preFs = {} => Cardinality(fs) = Len(items)

\* C8 witness: a successful run with three accepted rows into a directory
\* that already held a file of another pair.
C8_Witness ==
    /\ fpc = "done"
    /\ Len(items) = 3
    /\ printed = 3
    /\ Cardinality(fs) = 4

PastTargetCheck == fpc \notin {"start", "stat"}

\* C9 as stated: without --allow-existing, a run against a directory that
\* already exists ends with a fatal error before any query and any write.
C9_ExistingDirBlocked ==
    (preKind = "dir" /\ ~allowExisting /\ PastTargetCheck)
        => (fpc = "fatal" /\ pagesFetched = 0 /\ NothingWritten)

\* C9 amended: without --allow-existing, a run against a directory that
\* already exists and is not empty ends with a fatal error before any query
\* and any write.
C9_NonEmptyExistingDirBlocked ==
    (preKind = "dir" /\ preFs # {} /\ ~allowExisting /\ PastTargetCheck)
        => (fpc = "fatal" /\ pagesFetched = 0 /\ NothingWritten)

\* C9 witness: the run against a non-empty directory without the flag has
\* ended with the target-folder error.
C9_Witness ==
    /\ fpc = "fatal" /\ ferr = "target folder exists"
    /\ preFs # {}
    /\ ~allowExisting
    /\ pagesFetched = 0

\* C10: a file this run left under an item's final name is a complete copy of
\* the download and is not empty.
C10_FinalFilesCompleteAndNonEmpty ==
    \A f \in fs :
        (f.run /\ f.name \in ExpectedNames) => (f.size = f.body /\ f.size > 0)

====
